---- MODULE Spec2Model ----
(***************************************************************************)
(* Model of wifi.py: a discrete-time simulation of packet forwarding over  *)
(* a static network of routers (classes Router, Packet, Network).          *)
(*                                                                         *)
(* Routers are identified by their integer id; None is NoRouter.  A packet *)
(* is a record of the fields of class Packet plus `id`, which stands for   *)
(* the identity of the Python object.  Probabilities (Q and the values of  *)
(* random.random()) are counted in hundredths.                             *)
(***************************************************************************)
EXTENDS Integers, Sequences, FiniteSets, TLC

\* ------------------------------------------------------------------ bounds
MaxPackets == 2          \* longest scenario (requests injected before tick 1)
MaxDecls == 2            \* longest topology the loader is followed on, in declarations

\* ------------------------------------------------------ program constants
NEIGHBOUR_DELAY == 1     \* neighbour lookup delay
DISTANT_DELAY == 2       \* route lookup delay
Q_DEFAULT == 5           \* Q = 0.05, in hundredths

\* The routers of the modelled topologies, by id and in the order of the
\* loader's dict (the order of their lines in the topology file).
Routers == 1..3
NoRouter == 0            \* None, as a router reference

\* The drop ratios the model is run with: 0, the program's 0.05, and 1.
Qs == {0, Q_DEFAULT, 100}
\* Values of random.random(), which ranges over [0.0, 1.0): 0.0, a value equal
\* to the program's Q, and a value in the middle of the range.
Draws == {0, Q_DEFAULT, 50}

\* --------------------------------------------------------------- Packet
\* Packet.__init__: a request as read_packets builds it.
Packet(id, source, destination, connection) ==
    [id |-> id, source |-> source, destination |-> destination,
     connection |-> connection, delay |-> 0, via |-> NoRouter,
     is_reply |-> FALSE, lifetime |-> 0]

\* No packet (a placeholder in the step history).
NoPacket == Packet(0, NoRouter, NoRouter, 0)

\* Mutant of Packet_tick: the lifetime is not counted in the tick the packet
\* arrives.
Packet_tick_idle(p) ==
    [p EXCEPT !.delay = @ - 1, !.lifetime = IF p.delay = 1 THEN @ ELSE @ + 1]

\* Mutant of Packet_tick: a tick takes two off the delay.
Packet_tick_fast(p) == [p EXCEPT !.delay = @ - 2, !.lifetime = @ + 1]

\* Packet.tick: delay is always an int in this program, so it is decremented.
Packet_tick(p) == [p EXCEPT !.delay = @ - 1, !.lifetime = @ + 1]

\* ------------------------------------------------------------- topology
\* One link declaration of a topology line: "node neighbour delay [routes]".
Decl(node, neighbour, delay, dests) ==
    [node |-> node, neighbour |-> neighbour, delay |-> delay, dests |-> dests]

\* The tables of all routers: conns[r] is Router.connections (neighbour ->
\* delay), rts[r] is Router.routes (destination -> neighbour), as functions
\* whose domain is the set of keys of the dict.
EmptyTables ==
    [conns |-> [r \in Routers |-> <<>>], rts |-> [r \in Routers |-> <<>>]]

\* routes[destination] = neighbour for each destination of the list, in order.
RECURSIVE set_routes(_, _, _)
set_routes(rt, neighbour, dests) ==
    IF dests = <<>> THEN rt
    ELSE set_routes((Head(dests) :> neighbour) @@ rt, neighbour, Tail(dests))

\* Mutant of add_connection: a declaration that carries routes fills the table
\* but does not record the link.
add_connection_table_only(t, r, neighbour, delay, dests) ==
    [conns |-> IF dests = <<>>
               THEN [t.conns EXCEPT ![r] = (neighbour :> delay) @@ @]
               ELSE t.conns,
     rts |-> [t.rts EXCEPT ![r] = set_routes(@, neighbour, dests)]]

\* Router.add_connection(neighbour, delay, routes) on router r.
add_connection(t, r, neighbour, delay, dests) ==
    [conns |-> [t.conns EXCEPT ![r] = (neighbour :> delay) @@ @],
     rts |-> [t.rts EXCEPT ![r] = set_routes(@, neighbour, dests)]]

\* Mutant of load_declaration: the link is recorded at the declaring router
\* only.
load_declaration_one_way(t, d) ==
    add_connection(t, d.node, d.neighbour, d.delay, d.dests)

\* read_routers, lines 207-214: a declaration calls add_connection in both
\* directions, the reverse one without routes.
load_declaration(t, d) ==
    LET fwd == add_connection(t, d.node, d.neighbour, d.delay, d.dests)
    IN  add_connection(fwd, d.neighbour, d.node, d.delay, <<>>)

\* read_routers, second loop: the declarations in order.
RECURSIVE read_routers(_, _)
read_routers(t, ds) ==
    IF ds = <<>> THEN t
    ELSE read_routers(load_declaration(t, Head(ds)), Tail(ds))

\* The topologies the model is run on, each as the loader builds it from its
\* declarations.  LineExample is the commented example of main().
LineExample == <<Decl(1, 2, 11, <<3>>), Decl(3, 2, 5, <<1>>)>>
\* 1-2-3 in a line, short delays, routes in both directions.
Line == <<Decl(1, 2, 2, <<3>>), Decl(3, 2, 1, <<1>>)>>
\* A triangle where router 1 has a direct link to 3 and a table entry 3 via 2.
Triangle == <<Decl(1, 2, 1, <<3>>), Decl(1, 3, 2, <<>>), Decl(2, 3, 1, <<>>)>>
\* A line where only router 1 has a table entry: 3 has no way back to 1.
OneWay == <<Decl(1, 2, 1, <<3>>), Decl(2, 3, 1, <<>>)>>

\* None of them has a routing cycle, so every run ends: by finished() or by an
\* uncaught exception.
Topologies == {Line, Triangle, OneWay}

\* read_packets: one request per scenario line "connection source destination";
\* the connection tag of line k is k, and so is the packet's identity.
Requests == {<<1, 3>>, <<3, 1>>, <<2, 2>>}
Scenarios == UNION {[1..n -> Requests] : n \in 1..MaxPackets}
read_packets(scenario) ==
    [k \in 1..Len(scenario) |-> Packet(k, scenario[k][1], scenario[k][2], k)]

\* ---------------------------------------------------------------- state
VARIABLES
    decls,         \* the link declarations read_routers has processed
    requests,      \* the requests read_packets returned, in scenario order
    connections,   \* Router.connections of every router
    routes,        \* Router.routes of every router
    input,         \* Router.input of every router
    output,        \* Router.output of every router
    packets,       \* Network.packets: the packets in transit
    Q,             \* the drop ratio, in hundredths
    i,             \* the tick counter of Network.run
    pc,            \* the phase Network.tick runs next; "done"; "crashed"
    stdout,        \* the structured lines printed to standard output
    trace,         \* the diagnostics of stderr and the steps taken on packets
    live,          \* live[k]: number of packets queued or in transit after tick k
    nextId         \* identity of the next Packet object created

vars == <<decls, requests, connections, routes, input, output, packets, Q, i, pc,
          stdout, trace, live, nextId>>

\* One 'i=.. conn=.. node=.. src=.. dest=.. status=..' line.
StatusLine(t, conn, node, src, dest, status) ==
    [i |-> t, conn |-> conn, node |-> node, src |-> src, dest |-> dest,
     status |-> status]

\* One entry of the step history: what was done at tick t, at router node, to
\* packet pkt, and the packet that came out of it (NoPacket if none).
Step(kind, t, node, pkt, out) ==
    [kind |-> kind, i |-> t, node |-> node, pkt |-> pkt, out |-> out]

\* ----------------------------------------------------------------- Router
\* Router.get_route_for on router r.
get_route_for(r, destination) ==
    IF destination \in DOMAIN routes[r] THEN routes[r][destination]
    ELSE IF destination \in DOMAIN connections[r] THEN destination
    ELSE NoRouter

\* Mutant of reply_packet: the reply starts a lifetime of its own.
reply_packet_fresh(r, packet, via, id) ==
    [id |-> id, source |-> r, destination |-> packet.source,
     connection |-> packet.connection, via |-> via,
     delay |-> connections[r][via] + NEIGHBOUR_DELAY,
     lifetime |-> 0, is_reply |-> TRUE]

\* The reply of router r to a delivered request (lines 47-56); the caller has
\* checked that via is a key of connections.
reply_packet(r, packet, via, id) ==
    LET lookup_delay == IF via \in DOMAIN connections[r]
                        THEN NEIGHBOUR_DELAY ELSE DISTANT_DELAY
    IN [id |-> id, source |-> r, destination |-> packet.source,
        connection |-> packet.connection, via |-> via,
        delay |-> connections[r][via] + lookup_delay,
        lifetime |-> packet.lifetime, is_reply |-> TRUE]

\* The next hop router r chooses when forwarding to another router (lines
\* 59-68): the destination if it is a neighbour, else the table entry, else
\* none.
forward_via(r, destination) ==
    IF destination \in DOMAIN connections[r] THEN destination
    ELSE IF destination \in DOMAIN routes[r] THEN routes[r][destination]
    ELSE NoRouter

\* Mutant of forward_lookup_delay: every forwarding costs the neighbour lookup.
forward_lookup_delay_flat(r, destination) == NEIGHBOUR_DELAY

\* The lookup delay of that choice.
forward_lookup_delay(r, destination) ==
    IF destination \in DOMAIN connections[r] THEN NEIGHBOUR_DELAY
    ELSE DISTANT_DELAY

\* The packet as forwarded by router r through via (lines 60-61, 66-67).
forward_packet(r, packet, via) ==
    [packet EXCEPT !.via = via,
                   !.delay = connections[r][via]
                             + forward_lookup_delay(r, packet.destination)]

\* One iteration of the loop of Router.process_incoming_packets on router r at
\* tick t.  st holds the queues and outputs as the loop changes them; crashed
\* is set when the iteration raises KeyError (connections[via] with via not a
\* neighbour, lines 54 and 67).
process_packet(st, r, t) ==
    LET packet == Head(st.input[r])
        popped == [st EXCEPT !.input[r] = Tail(@)]
    IN  IF packet.destination = r
        THEN LET told == [popped EXCEPT !.trace =
                            Append(@, Step("delivered", t, r, packet, NoPacket))]
             IN  IF packet.is_reply
                 THEN [told EXCEPT !.stdout = Append(@,
                          StatusLine(t, packet.connection, r, packet.source,
                                packet.destination, "delivered"))]
                 ELSE LET via == get_route_for(r, packet.source)
                      IN  IF via \notin DOMAIN connections[r]
                          THEN [told EXCEPT !.crashed = TRUE]
                          ELSE LET reply == reply_packet(r, packet, via, told.nextId)
                               IN [told EXCEPT
                                     !.output[r] = Append(@, reply),
                                     !.nextId = @ + 1,
                                     !.trace = Append(@,
                                        Step("reply", t, r, packet, reply))]
        ELSE LET via == forward_via(r, packet.destination)
             IN  IF via = NoRouter
                 THEN [popped EXCEPT !.trace =
                          Append(@, Step("lost_at", t, r, packet, NoPacket))]
                 ELSE IF via \notin DOMAIN connections[r]
                 THEN [popped EXCEPT !.crashed = TRUE]
                 ELSE LET fwd == forward_packet(r, packet, via)
                      IN [popped EXCEPT
                            !.output[r] = Append(@, fwd),
                            !.trace = Append(@, Step("forward", t, r, packet, fwd))]

\* Router.process_incoming_packets: n iterations, n being the length of the
\* input queue when the call started; an exception ends the loop.
RECURSIVE Router_process_incoming_packets(_, _, _, _)
Router_process_incoming_packets(st, r, n, t) ==
    IF n = 0 \/ st.crashed THEN st
    ELSE Router_process_incoming_packets(process_packet(st, r, t), r, n - 1, t)

\* Network.process_incoming_packets: the routers in order, from router r on.
RECURSIVE Network_process_incoming_packets(_, _, _)
Network_process_incoming_packets(st, r, t) ==
    IF r \notin Routers \/ st.crashed THEN st
    ELSE Network_process_incoming_packets(
            Router_process_incoming_packets(st, r, Len(st.input[r]), t), r + 1, t)

\* ---------------------------------------------------------------- Network
\* drop_packets keeps or drops a packet on one value of random.random().
is_dropped(draw) == draw <= Q

\* The packets of ps (from position k on) that draws drops, in order.
RECURSIVE dropped_of(_, _, _)
dropped_of(ps, draws, k) ==
    IF k > Len(ps) THEN <<>>
    ELSE (IF is_dropped(draws[k]) THEN <<ps[k]>> ELSE <<>>)
         \o dropped_of(ps, draws, k + 1)

\* Mutant of kept_of: the dropped packets are reported but stay in transit.
kept_of_all(ps, dropped) == ps

\* The packets of ps that are not among the dropped ones.
kept_of(ps, dropped) ==
    SelectSeq(ps, LAMBDA p : \A k \in 1..Len(dropped) : dropped[k] # p)

\* Mutant of lost_line: the line carries the tick before.
lost_line_early(t, packet) ==
    StatusLine(t - 1, packet.connection, packet.via, packet.source,
               packet.destination, "lost")

\* The 'status=lost' line of a dropped packet.
lost_line(t, packet) ==
    StatusLine(t, packet.connection, packet.via, packet.source,
               packet.destination, "lost")

\* Mutant of drop_packets: a dropped packet is reported and sent again, behind
\* the packets that were kept.
drop_packets_resend(t, draws) ==
    LET dropped == dropped_of(packets, draws, 1)
    IN  /\ packets' = kept_of(packets, dropped) \o dropped
        /\ stdout' = stdout \o [k \in 1..Len(dropped) |-> lost_line(t, dropped[k])]
        /\ trace' = trace \o [k \in 1..Len(dropped) |->
                        Step("dropped", t, dropped[k].via, dropped[k], NoPacket)]

\* Network.drop_packets at tick t, for one outcome of the draws.
drop_packets(t, draws) ==
    LET dropped == dropped_of(packets, draws, 1)
    IN  /\ packets' = kept_of(packets, dropped)
        /\ stdout' = stdout \o [k \in 1..Len(dropped) |-> lost_line(t, dropped[k])]
        /\ trace' = trace \o [k \in 1..Len(dropped) |->
                        Step("dropped", t, dropped[k].via, dropped[k], NoPacket)]

\* Mutant of deliver_packet: a packet that arrives is also put back in transit
\* (the else of line 136 missing).
deliver_packet_twice(st) ==
    LET packet == Packet_tick(Head(st.packets))
        rest == Tail(st.packets)
    IN  [packets |-> Append(rest, packet),
         input |-> IF packet.delay <= 0
                   THEN [st.input EXCEPT ![packet.via] =
                            Append(@, [packet EXCEPT !.via = NoRouter])]
                   ELSE st.input]

\* One iteration of the loop of Network.deliver_packets: the first packet in
\* transit ticks, and arrives at its via or goes to the back of the list.
deliver_packet(st) ==
    LET packet == Packet_tick(Head(st.packets))
        rest == Tail(st.packets)
    IN  IF packet.delay <= 0
        THEN [packets |-> rest,
              input |-> [st.input EXCEPT ![packet.via] =
                            Append(@, [packet EXCEPT !.via = NoRouter])]]
        ELSE [packets |-> Append(rest, packet), input |-> st.input]

\* Network.deliver_packets: n iterations.
RECURSIVE deliver_packets(_, _)
deliver_packets(st, n) ==
    IF n = 0 THEN st ELSE deliver_packets(deliver_packet(st), n - 1)

\* Network.transmit_packets: the output queues, router by router from r on,
\* are moved to the end of the packets in transit.
RECURSIVE transmit_packets(_, _, _)
transmit_packets(st, r, t) ==
    IF r \notin Routers THEN st
    ELSE transmit_packets(
            [packets |-> st.packets \o st.output[r],
             output |-> [st.output EXCEPT ![r] = <<>>],
             trace |-> st.trace \o [k \in 1..Len(st.output[r]) |->
                          Step("transmit", t, r, st.output[r][k], NoPacket)]],
            r + 1, t)

\* Network.finished, on the given queues.
finished(ps, in, out) ==
    Len(ps) = 0 /\ \A r \in Routers : Len(in[r]) = 0 /\ Len(out[r]) = 0

\* The number of live packets: in transit or in a queue of a router.
RECURSIVE SumLen(_, _)
SumLen(q, r) == IF r \notin Routers THEN 0 ELSE Len(q[r]) + SumLen(q, r + 1)
LiveCount(ps, in, out) == Len(ps) + SumLen(in, 1) + SumLen(out, 1)

\* ----------------------------------------------------------------- actions
\* main(): the loaders build the tables and the requests, Network.__init__
\* puts every request in the input queue of its source.
Network_init(topology, scenario, q) ==
    LET t == read_routers(EmptyTables, topology)
        reqs == read_packets(scenario)
    IN  /\ decls = topology
        /\ requests = reqs
        /\ connections = t.conns
        /\ routes = t.rts
        /\ input = [r \in Routers |-> SelectSeq(reqs, LAMBDA p : p.source = r)]
        /\ output = [r \in Routers |-> <<>>]
        /\ packets = <<>>
        /\ Q = q
        /\ i = 0
        /\ pc = "drop"
        /\ stdout = <<>>
        /\ trace = <<>>
        /\ live = <<>>
        /\ nextId = Len(reqs) + 1

Init == \E topology \in Topologies, scenario \in Scenarios, q \in Qs :
            Network_init(topology, scenario, q)

\* run() starts the next tick (i += 1) and tick() runs its loss phase.
DropPackets ==
    /\ pc = "drop"
    /\ i' = i + 1
    /\ \E draws \in [1..Len(packets) -> Draws] : drop_packets(i + 1, draws)
    /\ pc' = "deliver"
    /\ UNCHANGED <<decls, requests, connections, routes, input, output, Q, live, nextId>>

\* The delivery phase of tick().
DeliverPackets ==
    /\ pc = "deliver"
    /\ LET st == deliver_packets([packets |-> packets, input |-> input],
                                 Len(packets))
       IN  packets' = st.packets /\ input' = st.input
    /\ pc' = "process"
    /\ UNCHANGED <<decls, requests, connections, routes, output, Q, i, stdout, trace, live, nextId>>

\* Mutant of ProcessIncomingPackets: a router that processes packets empties
\* its routing table.
ProcessIncomingPackets_forgetting ==
    /\ pc = "process"
    /\ LET st == Network_process_incoming_packets(
                    [input |-> input, output |-> output, stdout |-> stdout,
                     trace |-> trace, nextId |-> nextId, crashed |-> FALSE], 1, i)
       IN  /\ input' = st.input
           /\ output' = st.output
           /\ stdout' = st.stdout
           /\ trace' = st.trace
           /\ nextId' = st.nextId
           /\ pc' = IF st.crashed THEN "crashed" ELSE "transmit"
    /\ routes' = [r \in Routers |->
                    IF input[r] # <<>> THEN EmptyTables.rts[r] ELSE routes[r]]
    /\ UNCHANGED <<decls, requests, connections, packets, Q, i, live>>

\* The router-processing phase of tick(); a KeyError ends the program.
ProcessIncomingPackets ==
    /\ pc = "process"
    /\ LET st == Network_process_incoming_packets(
                    [input |-> input, output |-> output, stdout |-> stdout,
                     trace |-> trace, nextId |-> nextId, crashed |-> FALSE], 1, i)
       IN  /\ input' = st.input
           /\ output' = st.output
           /\ stdout' = st.stdout
           /\ trace' = st.trace
           /\ nextId' = st.nextId
           /\ pc' = IF st.crashed THEN "crashed" ELSE "transmit"
    /\ UNCHANGED <<decls, requests, connections, routes, packets, Q, i, live>>

\* The transmission phase of tick(), and the test of run() after the tick.
TransmitPackets ==
    /\ pc = "transmit"
    /\ LET st == transmit_packets(
                    [packets |-> packets, output |-> output, trace |-> trace], 1, i)
       IN  /\ packets' = st.packets
           /\ output' = st.output
           /\ trace' = st.trace
           /\ live' = Append(live, LiveCount(st.packets, input, st.output))
           /\ pc' = IF finished(st.packets, input, st.output) THEN "done" ELSE "drop"
    /\ UNCHANGED <<decls, requests, connections, routes, input, Q, i, stdout, nextId>>

Next == DropPackets \/ DeliverPackets \/ ProcessIncomingPackets \/ TransmitPackets

Spec == Init /\ [][Next]_vars

\* The runs with Q = 0.
InitQ0 == \E topology \in Topologies, scenario \in Scenarios :
              Network_init(topology, scenario, 0)
SpecQ0 == InitQ0 /\ [][Next]_vars

\* The runs with Q = 0 in which every request has a route to its destination
\* and its destination has a route back: requests between routers 1 and 3 in
\* the topologies Line and Triangle.
RoundTrips == {s \in Scenarios : \A k \in DOMAIN s : s[k] \in {<<1, 3>>, <<3, 1>>}}
InitRoundTripQ0 == \E topology \in {Line, Triangle}, scenario \in RoundTrips :
                       Network_init(topology, scenario, 0)
SpecRoundTripQ0 == InitRoundTripQ0 /\ [][Next]_vars

\* The runs with Q = 1.
InitQ1 == \E topology \in Topologies, scenario \in Scenarios :
              Network_init(topology, scenario, 100)
SpecQ1 == InitQ1 /\ [][Next]_vars

\* The example of main(): the line R1-R2-R3 with delays 11 and 5, one request
\* R1 -> R3, Q = 0.
InitExample == Network_init(LineExample, <<(<<1, 3>>)>>, 0)
SpecExample == InitExample /\ [][Next]_vars

\* The loader alone: read_routers on any sequence of at most MaxDecls
\* declarations between the routers, with link delays 1 and 2 and route lists
\* of none, one and two destinations.  Every router has a line of its own in
\* the file, so the first loop of read_routers has created it.
LoadDelays == {1, 2}
LoadDests == {<<>>, <<3>>, <<1, 3>>}
InitLoad ==
    /\ decls = <<>>
    /\ requests = <<>>
    /\ connections = EmptyTables.conns
    /\ routes = EmptyTables.rts
    /\ input = [r \in Routers |-> <<>>]
    /\ output = [r \in Routers |-> <<>>]
    /\ packets = <<>>
    /\ Q = Q_DEFAULT
    /\ i = 0
    /\ pc = "load"
    /\ stdout = <<>>
    /\ trace = <<>>
    /\ live = <<>>
    /\ nextId = 1

\* One iteration of the second loop of read_routers: the next declaration.
LoadDeclaration ==
    /\ pc = "load"
    /\ Len(decls) < MaxDecls
    /\ \E node \in Routers, neighbour \in Routers, delay \in LoadDelays,
          dests \in LoadDests :
          LET d == Decl(node, neighbour, delay, dests)
              t == load_declaration([conns |-> connections, rts |-> routes], d)
          IN  /\ decls' = Append(decls, d)
              /\ connections' = t.conns
              /\ routes' = t.rts
    /\ UNCHANGED <<requests, input, output, packets, Q, i, pc, stdout, trace,
                   live, nextId>>

SpecLoad == InitLoad /\ [][LoadDeclaration]_vars

\* ------------------------------------------------------------ vocabulary
\* The steps of a kind in the history, and the lines of a status in stdout.
Steps(kind) == {k \in DOMAIN trace : trace[k].kind = kind}
Lines(status) == {k \in DOMAIN stdout : stdout[k].status = status}

\* How many times the packet object id is held by the queues and the list of
\* packets in transit.
Count(q, id) == Cardinality({k \in DOMAIN q : q[k].id = id})
RECURSIVE CountAll(_, _, _)
CountAll(q, id, r) ==
    IF r \notin Routers THEN 0 ELSE Count(q[r], id) + CountAll(q, id, r + 1)
Occurrences(id) == Count(packets, id) + CountAll(input, id, 1) + CountAll(output, id, 1)

\* The packet objects created so far, and the ones in some container.
Created == 1..(nextId - 1)
Held == {packets[k].id : k \in DOMAIN packets}
        \cup UNION {{input[r][k].id : k \in DOMAIN input[r]} : r \in Routers}
        \cup UNION {{output[r][k].id : k \in DOMAIN output[r]} : r \in Routers}

\* The packet left the simulation with a diagnostic: delivered (line 43), lost
\* at a router (line 70) or dropped in transit (line 124).
Reported(id) ==
    \E k \in DOMAIN trace :
        /\ trace[k].kind \in {"delivered", "lost_at", "dropped"}
        /\ trace[k].pkt.id = id

\* ------------------------------------------------------------------ C1
\* C1: after construction and after every phase, every packet that has not
\* left with a diagnostic is held exactly once (in one input queue, one output
\* queue or the in-transit list), a packet that left with a diagnostic is held
\* nowhere, and nothing else is held.
C1_OnePlace ==
    /\ Held \subseteq Created
    /\ \A id \in Created :
          Occurrences(id) = (IF Reported(id) THEN 0 ELSE 1)

\* A request has left (delivered, with its diagnostic) and at the same time one
\* packet waits in an input queue and another is in transit.
C1_Witness ==
    /\ \E id \in Created : Reported(id)
    /\ Len(packets) > 0
    /\ \E r \in Routers : Len(input[r]) > 0

\* ------------------------------------------------------------------ C3
\* C3: the number of live packets at the end of a tick is never greater than
\* at the end of the tick before.
C3_LiveNonIncreasing ==
    \A k \in 1..(Len(live) - 1) : live[k + 1] <= live[k]

\* A reply has replaced a request, a later tick ended with fewer packets than
\* the one before.
C3_Witness ==
    /\ Steps("reply") # {}
    /\ \E k \in 1..(Len(live) - 1) : live[k + 1] < live[k] /\ live[k + 1] > 0

\* ------------------------------------------------------------------ C4
\* C4: no call of process_incoming_packets or drop_packets raises: the run is
\* never ended by an exception.
C4_NoFatalError == pc # "crashed"

\* ------------------------------------------------------------------ C5
\* C5: whenever a router forwards a packet, or replies to a request, toward a
\* destination for which it has both a table entry and a direct link, the via
\* of the packet is the table entry's next hop.
C5_TableEntryWins ==
    \A k \in Steps("forward") \cup Steps("reply") :
        LET r == trace[k].node
            dest == trace[k].out.destination
        IN  (dest \in DOMAIN routes[r] /\ dest \in DOMAIN connections[r])
                => trace[k].out.via = routes[r][dest]

\* ------------------------------------------------------------------ C6
\* C6: a forwarded packet gets delay link_delay(router, destination) +
\* NEIGHBOUR_DELAY if its destination is a neighbour of the router, and
\* link_delay(router, next hop) + DISTANT_DELAY if it goes through the table.
C6_ForwardDelay ==
    \A k \in Steps("forward") :
        LET r == trace[k].node
            dest == trace[k].pkt.destination
            out == trace[k].out
        IN  /\ dest # r
            /\ dest \in DOMAIN connections[r]
                  => out.delay = connections[r][dest] + NEIGHBOUR_DELAY
            /\ dest \notin DOMAIN connections[r]
                  => /\ out.via = routes[r][dest]
                     /\ out.delay = connections[r][out.via] + DISTANT_DELAY

\* Packets were forwarded both ways: to a neighbour and through the table.
C6_Witness ==
    /\ \E k \in Steps("forward") :
          trace[k].pkt.destination \in DOMAIN connections[trace[k].node]
    /\ \E k \in Steps("forward") :
          trace[k].pkt.destination \notin DOMAIN connections[trace[k].node]

\* ------------------------------------------------------------------ C7
\* The hops of the run so far: each forwarding and each reply, in order, with
\* the router that made it, the next hop and the delay it assigned.
Hop(kind, node, via, delay) ==
    [kind |-> kind, node |-> node, via |-> via, delay |-> delay]
Hops ==
    LET h == SelectSeq(trace, LAMBDA s : s.kind \in {"forward", "reply"})
    IN  [k \in 1..Len(h) |-> Hop(h[k].kind, h[k].node, h[k].out.via, h[k].out.delay)]
IsPrefix(a, b) == Len(a) <= Len(b) /\ \A k \in 1..Len(a) : a[k] = b[k]

\* The 'delivered' line of the example: the reply to connection 1, at R1.
ExampleDelivered == StatusLine(i, 1, 1, 3, 1, "delivered")

\* The hops of the example as the code takes them, and as the claim states them.
ExampleHops ==
    <<Hop("forward", 1, 2, 11 + DISTANT_DELAY), Hop("forward", 2, 3, 5 + NEIGHBOUR_DELAY),
      Hop("reply", 3, 2, 5 + NEIGHBOUR_DELAY), Hop("forward", 2, 1, 11 + NEIGHBOUR_DELAY)>>
StatedHops ==
    <<Hop("forward", 1, 2, 11 + 1), Hop("forward", 2, 3, 5 + 1),
      Hop("reply", 3, 2, 5 + 2), Hop("forward", 2, 1, 11 + 1)>>

\* C7: in the example the hops are R1 to R2 with delay 11+1, R2 to R3 with
\* 5+1, the reply at R3 via R2 with 5+2, R2 to R1 with 11+1, and the run ends
\* with exactly one 'delivered' line at R1.
C7_AsStated ==
    /\ IsPrefix(Hops, StatedHops)
    /\ pc = "done" => Hops = StatedHops /\ stdout = <<ExampleDelivered>>

\* The same with the delays the code assigns (11+DISTANT_DELAY at R1, whose
\* table leads to R3, and 5+NEIGHBOUR_DELAY for the reply, whose next hop is a
\* neighbour of R3): the run ends with the four hops taken and exactly one
\* 'delivered' line at R1.
ExampleRunDelivers ==
    /\ IsPrefix(Hops, ExampleHops)
    /\ pc = "done" => Hops = ExampleHops /\ stdout = <<ExampleDelivered>>

\* ------------------------------------------------------------------ C8
\* C8: every reply a router creates is marked is_reply, carries the connection
\* and the lifetime of the request that was delivered, has the creating router
\* as source and the request's source as destination; packets are created for
\* delivered requests only, never for a delivered reply.
C8_ReplyFidelity ==
    /\ \A k \in Steps("reply") :
          LET request == trace[k].pkt
              reply == trace[k].out
          IN  /\ ~request.is_reply
              /\ reply.is_reply
              /\ reply.connection = request.connection
              /\ reply.lifetime = request.lifetime
              /\ reply.source = trace[k].node
              /\ reply.destination = request.source
    /\ nextId - 1 = Len(requests) + Cardinality(Steps("reply"))

\* A request that had travelled was answered, and a reply was delivered.
C8_Witness ==
    /\ \E k \in Steps("reply") : trace[k].pkt.lifetime > 0
    /\ \E k \in Steps("delivered") : trace[k].pkt.is_reply

\* ------------------------------------------------------------------ C9
\* C9: with Q = 0 the loss phase removes no packet and prints no 'status=lost'
\* line, whatever the draws are.
C9_NoLossAtQ0 ==
    Q = 0 => Lines("lost") = {} /\ Steps("dropped") = {}

\* ------------------------------------------------------------------ C10
\* The 'status=lost' line of the packet of a transmit step, at tick t.
LostAt(k, t) ==
    StatusLine(t, trace[k].pkt.connection, trace[k].pkt.via,
               trace[k].pkt.source, trace[k].pkt.destination, "lost")

\* No packet in an input queue has ticked: none was put there by the delivery
\* phase.
NothingDelivered ==
    \A r \in Routers : \A k \in DOMAIN input[r] : input[r][k].lifetime = 0

\* C10 as stated: with Q = 1 the 'status=lost' line of a packet carries the
\* tick in whose transmission phase the packet went in transit, and the
\* delivery phase delivers nothing.
C10_AsStated ==
    Q = 100 =>
        /\ \A l \in Lines("lost") :
              \E k \in Steps("transmit") : stdout[l] = LostAt(k, trace[k].i)
        /\ NothingDelivered

\* C10, amended: with Q = 1 every packet that the transmission phase of tick t
\* puts in transit is lost by the loss phase of tick t+1: its 'status=lost'
\* line carries t+1, every 'status=lost' line is such a line, and the delivery
\* phase delivers nothing.
C10_LostNextTick ==
    Q = 100 =>
        /\ \A k \in Steps("transmit") :
              i > trace[k].i =>
                  \E l \in Lines("lost") : stdout[l] = LostAt(k, trace[k].i + 1)
        /\ \A l \in Lines("lost") :
              \E k \in Steps("transmit") : stdout[l] = LostAt(k, trace[k].i + 1)
        /\ pc = "deliver" => packets = <<>>
        /\ NothingDelivered

\* Two packets went in transit and were lost.
C10_Witness == Q = 100 /\ Cardinality(Lines("lost")) = 2

\* ------------------------------------------------------------------ C2
\* The 'delivered' lines that answer request k: the reply of its connection,
\* delivered at its source.
Answers(k) ==
    {l \in Lines("delivered") :
        /\ stdout[l].conn = requests[k].connection
        /\ stdout[l].node = requests[k].source
        /\ stdout[l].dest = requests[k].source
        /\ stdout[l].src = requests[k].destination}

\* C2: with Q = 0 and no routing cycle the run ends, and when it has ended every
\* request has exactly one 'delivered' line for its reply at its source.
C2_EveryRequestAnswered ==
    /\ pc # "crashed"
    /\ pc = "done" => \A k \in DOMAIN requests : Cardinality(Answers(k)) = 1

\* ------------------------------------------------------------------ C11
\* The terminal events of the history: a reply delivered (line 45), a packet
\* dropped in transit (line 124) and a forwarding failure (line 70).
Terminal == {k \in DOMAIN trace :
                \/ trace[k].kind \in {"dropped", "lost_at"}
                \/ trace[k].kind = "delivered" /\ trace[k].pkt.is_reply}

\* The lines of stdout that carry the tick, connection, router, source and
\* destination of the event of step k.
RecordsOf(k) ==
    {n \in DOMAIN stdout :
        /\ stdout[n].i = trace[k].i
        /\ stdout[n].conn = trace[k].pkt.connection
        /\ stdout[n].node = trace[k].node
        /\ stdout[n].src = trace[k].pkt.source
        /\ stdout[n].dest = trace[k].pkt.destination}

\* C11: every terminal event (reply delivered, packet lost in transit,
\* forwarding failure at a router with no route) has exactly one record in the
\* structured output, carrying its tick, connection, router, source and
\* destination, and the output holds nothing else.
C11_EveryEventRecorded ==
    /\ \A k \in Terminal : Cardinality(RecordsOf(k)) = 1
    /\ Len(stdout) = Cardinality(Terminal)

\* ------------------------------------------------------------------ C12
\* C12: after any sequence of link declarations the links are symmetric: B is
\* a neighbour of A iff A is a neighbour of B, with the same delay on both
\* sides, also when a link is declared again with another delay.
C12_LinksSymmetric ==
    \A a \in Routers, b \in Routers :
        /\ b \in DOMAIN connections[a] <=> a \in DOMAIN connections[b]
        /\ b \in DOMAIN connections[a] => connections[a][b] = connections[b][a]

\* The same link between two routers was declared twice, the second time from
\* the other side and with another delay, and the second delay is the one both
\* routers hold.
C12_Witness ==
    /\ Len(decls) = 2
    /\ decls[1].node # decls[1].neighbour
    /\ decls[2].node = decls[1].neighbour
    /\ decls[2].neighbour = decls[1].node
    /\ decls[2].delay # decls[1].delay
    /\ connections[decls[1].node][decls[1].neighbour] = decls[2].delay

\* ------------------------------------------------------------------ C13
\* C13: in every state of a run the link table and the routing table of every
\* router are the ones the loader built from the declarations: no phase of a
\* tick changes them.
C13_TablesAsConstructed ==
    LET t == read_routers(EmptyTables, decls)
    IN  connections = t.conns /\ routes = t.rts

\* A run went through all its phases, forwarded through a routing table and
\* delivered a reply, and ended.
C13_Witness ==
    /\ pc = "done"
    /\ Lines("delivered") # {}
    /\ \E k \in Steps("forward") :
          trace[k].pkt.destination \in DOMAIN routes[trace[k].node]

\* ------------------------------------------------------------------ C14
\* C14: a packet dropped by the loss phase is terminal: from its 'status=lost'
\* event on it is in no queue and not in transit, and no later step handles it
\* or its connection: it is not transmitted, forwarded, delivered or dropped
\* again, and no reply is created for it.
C14_DroppedIsTerminal ==
    \A k \in Steps("dropped") :
        /\ Occurrences(trace[k].pkt.id) = 0
        /\ \A n \in DOMAIN trace :
              n > k => /\ trace[n].pkt.id # trace[k].pkt.id
                       /\ trace[n].out.id # trace[k].pkt.id
                       /\ trace[n].pkt.connection # trace[k].pkt.connection
        /\ \A n \in Steps("reply") : trace[n].pkt.id # trace[k].pkt.id

\* A request was dropped and the run went on for another tick, in which the
\* other connection was handled.
C14_Witness ==
    \E k \in Steps("dropped"), n \in DOMAIN trace :
        /\ ~trace[k].pkt.is_reply
        /\ n > k
        /\ trace[n].i > trace[k].i
        /\ trace[n].kind \in {"forward", "reply", "delivered"}

\* ------------------------------------------------------------------ C15
\* The packet of id, in transit towards via with delay d; queued at via's
\* input as just arrived; waiting in the output queue of router r.
InTransitWith(id, via, d) ==
    \E n \in DOMAIN packets :
        packets[n].id = id /\ packets[n].via = via /\ packets[n].delay = d
ArrivedAt(id, via) ==
    \E n \in DOMAIN input[via] :
        /\ input[via][n].id = id
        /\ input[via][n].via = NoRouter
        /\ input[via][n].delay = 0
QueuedAt(id, r) == \E n \in DOMAIN output[r] : output[r][n].id = id

\* What happened next to the packet put in an output queue by step k: the
\* steps after k that take it out of transit or out of an input queue.
NextOf(k) ==
    {n \in DOMAIN trace :
        /\ n > k
        /\ trace[n].pkt.id = trace[k].out.id
        /\ trace[n].kind \in {"dropped", "delivered", "forward", "lost_at"}}
Min(S) == CHOOSE n \in S : \A m \in S : n <= m

\* The packet put in an output queue by step k, due at tick due, is where the
\* schedule of tick() has it at this point of the run.
OnItsWay(k, due) ==
    LET p == trace[k].out
        t == trace[k].i
    IN  \/ pc = "transmit" /\ i = t /\ QueuedAt(p.id, trace[k].node)
        \/ pc = "drop" /\ t <= i /\ i < due /\ InTransitWith(p.id, p.via, due - i)
        \/ pc = "deliver" /\ t < i /\ i <= due
                          /\ InTransitWith(p.id, p.via, due - i + 1)
        \/ pc \in {"process", "transmit"} /\ t < i /\ i < due
                          /\ InTransitWith(p.id, p.via, due - i)
        \/ pc = "process" /\ i = due /\ ArrivedAt(p.id, p.via)

\* C15: a packet put in an output queue with delay d >= 1 in the processing
\* phase of tick t is either dropped in a loss phase of ticks t+1 .. t+d, or
\* stays in transit through ticks t+1 .. t+d-1, is put in its via's input queue
\* with via cleared and delay 0 in the delivery phase of tick t+d, and is
\* processed by that router in the processing phase of tick t+d.
C15_AsStated ==
    \A k \in Steps("forward") \cup Steps("reply") :
        LET p == trace[k].out
            due == trace[k].i + p.delay
        IN  p.delay >= 1 =>
            IF NextOf(k) # {}
            THEN LET n == Min(NextOf(k))
                 IN  IF trace[n].kind = "dropped"
                     THEN trace[k].i < trace[n].i /\ trace[n].i <= due
                     ELSE /\ trace[n].i = due
                          /\ trace[n].node = p.via
                          /\ trace[n].pkt.via = NoRouter
                          /\ trace[n].pkt.delay = 0
            ELSE OnItsWay(k, due)

\* ------------------------------------------------------------------ C16
\* The steps that take a packet out of an input queue, and the packets that
\* router r took out of its input queue in the steps tr, in order.
Pops == {"delivered", "forward", "lost_at"}
PoppedBy(tr, r) ==
    LET own == SelectSeq(tr, LAMBDA s : s.kind \in Pops /\ s.node = r)
    IN  [n \in DOMAIN own |-> own[n].pkt]

\* No packet is taken out of an input queue twice in one tick.
PoppedOncePerTick ==
    \A k \in DOMAIN trace, n \in DOMAIN trace :
        ( /\ k < n
          /\ trace[k].kind \in Pops /\ trace[n].kind \in Pops
          /\ trace[k].pkt.id = trace[n].pkt.id )
        => trace[k].i < trace[n].i

\* A packet waiting in an input queue was put in an output queue, if ever, in
\* an earlier tick.
QueuedFromEarlierTick ==
    \A r \in Routers : \A n \in DOMAIN input[r], k \in DOMAIN trace :
        trace[k].out.id = input[r][n].id => trace[k].i < i

\* One phase, as to the input queues: the processing phase has every router
\* take out exactly the packets its input queue held when the phase started,
\* in order and once each, and leaves every input queue empty; the loss and
\* transmission phases leave the input queues alone.
SnapshotProcessed ==
    /\ pc = "process" =>
            /\ \A r \in Routers :
                  /\ PoppedBy(SubSeq(trace', Len(trace) + 1, Len(trace')), r)
                        = input[r]
                  /\ input'[r] = <<>>
            /\ PoppedOncePerTick'
            /\ QueuedFromEarlierTick
    /\ pc \in {"drop", "transmit"} => input' = input

\* C16: within one tick no packet is processed more than once: each router
\* processes exactly the packets its input queue held when the processing
\* phase started, and what a router forwards or creates reaches an input
\* queue in the delivery phase of a later tick only.
C16_AsStated == [][SnapshotProcessed]_vars

\* ------------------------------------------------------------------ C17
\* Every input queue and every output queue is empty.
QueuesEmpty == \A r \in Routers : input[r] = <<>> /\ output[r] = <<>>

\* C17: at the end of every tick all input and output queues are empty, so
\* finished() is there the same as 'nothing is in transit'; run() goes on
\* while something is in transit at the end of the tick, and when it has
\* stopped the last tick was completed with nothing in transit, the first
\* such tick of the run.
C17_AsStated ==
    /\ (pc \in {"drop", "done"} /\ i >= 1) =>
          /\ QueuesEmpty
          /\ finished(packets, input, output) <=> packets = <<>>
          /\ pc = "done" <=> packets = <<>>
    /\ pc \in {"done", "crashed"} =>
          /\ Len(live) = i
          /\ packets = <<>>
          /\ \A k \in 1..(i - 1) : live[k] > 0

\* ------------------------------------------------------------------ C18
\* The run is at a tick boundary: a whole tick has ended.
AtTickBoundary == pc \in {"drop", "done"} /\ i >= 1

\* C18: with positive link delays no packet ever has a negative delay: a
\* packet in an input queue has delay 0 and no via (the delivery phase moved
\* it at 0, not below), a packet in an output queue has a via and a delay of
\* at least 1, and a packet in transit has a via and a delay of at least 1,
\* at a tick boundary and between the phases.
C18_DelayNonNegative ==
    /\ \A r \in Routers : \A n \in DOMAIN input[r] :
          input[r][n].delay = 0 /\ input[r][n].via = NoRouter
    /\ \A r \in Routers : \A n \in DOMAIN output[r] :
          output[r][n].delay >= 1 /\ output[r][n].via \in Routers
    /\ \A n \in DOMAIN packets :
          /\ packets[n].via \in Routers
          /\ packets[n].delay >= 1
    /\ \A k \in DOMAIN trace : trace[k].pkt.delay >= 0 /\ trace[k].out.delay >= 0

\* The delivery phase has just put a packet that spent a tick or more in
\* transit in an input queue, while another packet stays in transit.
C18_Witness ==
    /\ pc = "process"
    /\ \E r \in Routers : \E n \in DOMAIN input[r] : input[r][n].lifetime > 0
    /\ packets # <<>>

\* ------------------------------------------------------------------ C19
\* The packets held by the queues and in transit.
HeldPackets ==
    {packets[n] : n \in DOMAIN packets}
    \cup UNION {{input[r][n] : n \in DOMAIN input[r]} : r \in Routers}
    \cup UNION {{output[r][n] : n \in DOMAIN output[r]} : r \in Routers}

\* The sum of the delays assigned on the hops (forwardings and the reply) of
\* connection c among the first n steps of the history.
RECURSIVE HopDelays(_, _)
HopDelays(c, n) ==
    IF n = 0 THEN 0
    ELSE HopDelays(c, n - 1)
         + (IF trace[n].kind \in {"forward", "reply"} /\ trace[n].pkt.connection = c
            THEN trace[n].out.delay ELSE 0)

\* C19: at the end of tick i every live packet has lifetime i-1; along the
\* steps of a connection the lifetime never decreases, a forwarded packet and
\* a reply keeping the lifetime of the packet processed; and a reply delivered
\* at tick i has lifetime i-1, the sum of the delays assigned on the hops of
\* the request and of the reply.
C19_Lifetime ==
    /\ AtTickBoundary => \A p \in HeldPackets : p.lifetime = i - 1
    /\ \A k \in DOMAIN trace, n \in DOMAIN trace :
          (k < n /\ trace[k].pkt.connection = trace[n].pkt.connection)
          => trace[k].pkt.lifetime <= trace[n].pkt.lifetime
    /\ \A k \in Steps("forward") \cup Steps("reply") :
          trace[k].out.lifetime = trace[k].pkt.lifetime
    /\ \A k \in Steps("delivered") :
          trace[k].pkt.is_reply =>
             /\ trace[k].pkt.lifetime = trace[k].i - 1
             /\ trace[k].pkt.lifetime = HopDelays(trace[k].pkt.connection, k)

\* A reply that took more than one hop was delivered at the end of a run in
\* which two packets were live at the end of the tick before.
C19_Witness ==
    /\ AtTickBoundary
    /\ i >= 2
    /\ live[i - 1] = 2
    /\ \E k \in Steps("delivered") :
          /\ trace[k].pkt.is_reply
          /\ trace[k].i = i
          /\ \E n \in Steps("forward") :
                trace[n].pkt.is_reply /\ trace[n].pkt.id = trace[k].pkt.id

\* ------------------------------------------------------------------ C20
\* C20: in the tables the loader builds, every next hop of a routing table is
\* a neighbour of the router.  So get_route_for returns a neighbour or
\* nothing; forwarding through the table finds the delay of the link to the
\* next hop; and a reply to any source with a way back gets the delay of the
\* link to the next hop plus NEIGHBOUR_DELAY, never DISTANT_DELAY.
C20_NextHopIsNeighbour ==
    /\ \A r \in Routers : \A d \in DOMAIN routes[r] :
          routes[r][d] \in DOMAIN connections[r]
    /\ \A r \in Routers, d \in Routers :
          get_route_for(r, d) \in DOMAIN connections[r] \cup {NoRouter}
    /\ \A r \in Routers, d \in Routers :
          (d \notin DOMAIN connections[r] /\ d \in DOMAIN routes[r])
          => /\ forward_via(r, d) \in DOMAIN connections[r]
             /\ forward_packet(r, Packet(1, d, d, 1), forward_via(r, d)).delay
                   = connections[r][routes[r][d]] + DISTANT_DELAY
    /\ \A r \in Routers, s \in Routers :
          LET via == get_route_for(r, s)
          IN  via # NoRouter =>
                 reply_packet(r, Packet(1, s, r, 1), via, 2).delay
                    = connections[r][via] + NEIGHBOUR_DELAY

\* A router holds a route to a router that is not its neighbour, through a
\* link whose delay was declared again after the route was.
C20_Witness ==
    /\ Len(decls) = 2
    /\ \E r \in Routers : \E d \in DOMAIN routes[r] :
          /\ d # r
          /\ d \notin DOMAIN connections[r]
          /\ decls[1].node = r /\ decls[1].neighbour = routes[r][d]
          /\ decls[2].dests = <<>>
          /\ connections[r][routes[r][d]] # decls[1].delay

============================================================================
